---- MODULE Spec2Model ----
(***************************************************************************)
(* Model of gen_auto_berichtsheft.js: one run of the script, from the two  *)
(* date prompts through login, token, the day/slot loop, the flattening of *)
(* the per-day aggregation into paragraphs, and the writing of the file.   *)
(*                                                                         *)
(* A Date is its time value in whole hours since 1970-01-01T00:00Z (every  *)
(* time the script builds is on a whole hour), or NaN.  A string that the  *)
(* script searches or assembles is a sequence of tokens.                   *)
(***************************************************************************)
EXTENDS Integers, Sequences, FiniteSets, TLC

\* ------------------------------------------------------------------ bounds
\* Number of consecutive calendar days the entered dates are drawn from.
MaxDays == 2
\* Calendar entries the server returns during one run, all lookups together.
MaxEntries == 2

\* ---------------------------------------------------------------- calendar
\* The time value of an invalid Date.
NaN == -1

HoursPerDay == 24

EpochYear == 1970

IsLeap(y) == (y % 4 = 0 /\ y % 100 # 0) \/ y % 400 = 0

LeapsBefore(y) == (y - 1) \div 4 - (y - 1) \div 100 + (y - 1) \div 400

DaysInMonth(y, m) ==
    IF m = 2 THEN (IF IsLeap(y) THEN 29 ELSE 28)
    ELSE IF m \in {4, 6, 9, 11} THEN 30 ELSE 31

RECURSIVE DaysBeforeMonth(_, _)
DaysBeforeMonth(y, m) ==
    IF m = 1 THEN 0 ELSE DaysBeforeMonth(y, m - 1) + DaysInMonth(y, m - 1)

\* The years the model's dates lie in, and one more on either side.
YearRange == 2023 .. 2029

\* Day number (days since 1970-01-01) of the first day of each month.
FirstOfMonth ==
    [y \in YearRange |->
        [m \in 1 .. 12 |->
            365 * (y - EpochYear) + (LeapsBefore(y) - LeapsBefore(EpochYear))
                + DaysBeforeMonth(y, m)]]

\* MakeDay(year, month, date) of the language: the day number of the first of
\* the month plus date - 1, so a date outside the month rolls over.
MakeDay(y, m, d) == FirstOfMonth[y][m] + d - 1

YearOfDay(n) ==
    CHOOSE y \in YearRange : FirstOfMonth[y][1] <= n /\ n < FirstOfMonth[y][12] + 31

MonthOfDay(n) ==
    LET y == YearOfDay(n)
    IN  CHOOSE m \in 1 .. 12 :
            FirstOfMonth[y][m] <= n /\ n < FirstOfMonth[y][m] + DaysInMonth(y, m)

DateOfDay(n) == n - FirstOfMonth[YearOfDay(n)][MonthOfDay(n)] + 1

\* 0 = Sunday .. 6 = Saturday; 1970-01-01 was a Thursday.
WeekDayOfDay(n) == (n + 4) % 7

\* --------------------------------------------------------------- time zones
\* The zone of the process is part of its environment.
TimeZones == {"UTC", "Europe/Berlin", "America/Bogota"}

\* Day number of the last Sunday of month m of year y.
LastSunday(y, m) ==
    LET last == MakeDay(y, m, DaysInMonth(y, m))
    IN  last - WeekDayOfDay(last)

\* Central European summer time runs from 01:00 UTC on the last Sunday of
\* March to 01:00 UTC on the last Sunday of October.
SummerTime ==
    [y \in YearRange |->
        [from |-> LastSunday(y, 3) * HoursPerDay + 1,
         to |-> LastSunday(y, 10) * HoursPerDay + 1]]

\* Offset of local time from UTC, in hours, at the instant t.
OffsetAt(zone, t) ==
    IF zone = "UTC" THEN 0
    ELSE IF zone = "America/Bogota" THEN -5
    ELSE LET st == SummerTime[YearOfDay(t \div HoursPerDay)]
         IN  IF st.from <= t /\ t < st.to THEN 2 ELSE 1

ZoneOffsets(zone) ==
    IF zone = "UTC" THEN {0}
    ELSE IF zone = "America/Bogota" THEN {-5}
    ELSE {1, 2}

SetMin(S) == CHOOSE x \in S : \A z \in S : x <= z

LocalTime(zone, t) == t + OffsetAt(zone, t)

\* UTC(tLocal) of the language: a local time that occurs twice, or not at
\* all, is read with the offset in force before the transition.
UTCOf(zone, tl) ==
    LET cands == {tl - o : o \in {p \in ZoneOffsets(zone) : OffsetAt(zone, tl - p) = p}}
    IN  IF cands # {} THEN SetMin(cands) ELSE tl - SetMin(ZoneOffsets(zone))

\* The local getters of Date.
GetDayNumber(zone, t) == LocalTime(zone, t) \div HoursPerDay
GetFullYear(zone, t) == YearOfDay(GetDayNumber(zone, t))
GetMonth(zone, t) == MonthOfDay(GetDayNumber(zone, t)) - 1
GetDate(zone, t) == DateOfDay(GetDayNumber(zone, t))
GetDay(zone, t) == WeekDayOfDay(GetDayNumber(zone, t))
GetHours(zone, t) == LocalTime(zone, t) % HoursPerDay

\* date.setDate(dt): the local day is replaced, the local time of day kept.
SetDate(zone, t, dt) ==
    UTCOf(zone, MakeDay(GetFullYear(zone, t), GetMonth(zone, t) + 1, dt) * HoursPerDay
                    + GetHours(zone, t))

\* date.setHours(h, 0, 0): the local time of day is replaced, the local day kept.
SetHours(zone, t, h) == UTCOf(zone, GetDayNumber(zone, t) * HoursPerDay + h)

\* new Date(year, 0, 4): local midnight of January 4.
LocalJan4(zone, y) == UTCOf(zone, MakeDay(y, 1, 4) * HoursPerDay)

\* Math.ceil(a / b) for b > 0.
CeilDiv(a, b) == -((-a) \div b)

\* getCalendarWeek(date).  (target - firstThursday) / 86400000 days is
\* (target - firstThursday) / 24 here, so the quotient by 7 is taken over
\* 7 * 24 hours.
getCalendarWeek(zone, date) ==
    LET dayNr == (GetDay(zone, date) + 6) % 7
        target == SetDate(zone, date, GetDate(zone, date) - dayNr + 3)
        firstThursday == LocalJan4(zone, GetFullYear(zone, target))
    IN  CeilDiv((target - firstThursday)
                    + (GetDay(zone, firstThursday) + 1) * HoursPerDay,
                7 * HoursPerDay)

\* --------------------------------------------------------------- user input
\* What the user types at a prompt: text of the shape YYYY-MM-DD with its
\* three numbers, or any other text.
FirstDay == MakeDay(2026, 10, 25)

WindowDays == FirstDay .. FirstDay + MaxDays - 1

YmdOfDay(n) == [form |-> "ymd", y |-> YearOfDay(n), m |-> MonthOfDay(n), d |-> DateOfDay(n)]

InputTexts ==
    {YmdOfDay(n) : n \in WindowDays}
        \cup {[form |-> "other", y |-> 0, m |-> 0, d |-> 0],
              [form |-> "ymd", y |-> 2026, m |-> 13, d |-> 1],
              [form |-> "ymd", y |-> 2026, m |-> 10, d |-> 32]}

\* new Date(text) for a date-only text: midnight UTC of that day.  The engine
\* accepts months 1..12 and days 1..31 and rolls a day beyond the end of the
\* month over into the next month; any other text gives an invalid Date.
ParseDate(text) ==
    IF text.form = "ymd" /\ text.m \in 1 .. 12 /\ text.d \in 1 .. 31
    THEN MakeDay(text.y, text.m, text.d) * HoursPerDay
    ELSE NaN

IsNaN(date) == date = NaN

\* ValidateTimeframe without the comparison of the two dates.
ValidateTimeframeNoOrder(start, end) ==
    IF IsNaN(start) \/ IsNaN(end) THEN "Invalid date format" ELSE ""

\* The two checks of promptUserForTimeframe: "" when the promise resolves,
\* else the rejection.
ValidateTimeframe(start, end) ==
    IF IsNaN(start) \/ IsNaN(end) THEN "Invalid date format"
    ELSE IF start > end THEN "Start date must be earlier"
    ELSE ""

\* -------------------------------------------------------------------- text
Range(s) == {s[i] : i \in 1 .. Len(s)}

\* text.includes(needle)
Includes(text, needle) ==
    \E i \in 1 .. Len(text) - Len(needle) + 1 :
        SubSeq(text, i, i + Len(needle) - 1) = needle

\* String(n).padStart(2, "0"), and the "2-digit" fields of a locale time.
Pad2(n) == IF n < 10 THEN <<"0", ToString(n)>> ELSE <<ToString(n)>>

\* formatLocalDateTime(date): the fields of the local date and time that the
\* text YYYY-MM-DDTHH:00:00 carries.
formatLocalDateTime(zone, date) ==
    [y |-> GetFullYear(zone, date), m |-> GetMonth(zone, date) + 1,
     d |-> GetDate(zone, date), h |-> GetHours(zone, date)]

NoTime == [y |-> 0, m |-> 0, d |-> 0, h |-> 0]

MissingContent ==
    <<"Kein Lehrstoff", " durch die Lehrkraft angegeben! Bitte manuell eintragen!">>

LF8Long ==
    "LF 8: Daten systemuebergreifend bereitstellen / OOP (SI+IT nur Grundlagen) in Python/Java/ Datenbanke"

LF8Short == "LF 8: Daten systemuebergreifend bereitstellen"

\* The subject name under which an entry is grouped.
SubjectOf(entry) == IF entry.subject = LF8Long THEN LF8Short ELSE entry.subject

\* toLocaleTimeString("de-DE", {hour: "2-digit", minute: "2-digit"})
LocaleTime(time) == Pad2(time.h) \o <<":">> \o Pad2(time.m)

CanceledText(entry) ==
    <<"Entfallen (">> \o LocaleTime(entry.startDateTime) \o <<" - ">>
        \o LocaleTime(entry.endDateTime) \o <<")">>

\* entry.teachingContent || sentinel: an absent or empty text is falsy.
TeachingContent(entry) ==
    IF entry.teachingContent = <<>> THEN MissingContent ELSE entry.teachingContent

LineOf(entry) ==
    IF entry.status = "CANCELLED" THEN CanceledText(entry) ELSE TeachingContent(entry)

\* ------------------------------------------------------- the server's data
Times ==
    {[startDateTime |-> [h |-> 8, m |-> 0], endDateTime |-> [h |-> 9, m |-> 30]],
     [startDateTime |-> [h |-> 9, m |-> 45], endDateTime |-> [h |-> 11, m |-> 15]]}

MkEntry(subject, status, content, time) ==
    [subject |-> subject, status |-> status, teachingContent |-> content,
     startDateTime |-> time.startDateTime, endDateTime |-> time.endDateTime]

\* Calendar entries a slot lookup can return: subject.longName ("" when the
\* entry has none), status, teachingContent (<<>> when it has none) and the
\* entry's own start and end time.
EntryPool ==
    LET t1 == CHOOSE t \in Times : t.startDateTime.h = 8
        t2 == CHOOSE t \in Times : t.startDateTime.h = 9
    IN  {MkEntry("Mathe", "REGULAR", <<"Algebra">>, t1),
         MkEntry("Mathe", "REGULAR", <<>>, t1),
         MkEntry("Mathe", "CANCELLED", <<"Algebra">>, t2),
         MkEntry(LF8Long, "CANCELLED", <<>>, t1),
         MkEntry("", "CANCELLED", <<>>, t1),
         MkEntry("10", "REGULAR", <<"Kein Lehrstoff", " wegen Klausur">>, t2),
         MkEntry("constructor", "REGULAR", <<"Algebra">>, t1)}

RECURSIVE SeqsUpTo(_, _)
SeqsUpTo(S, n) ==
    IF n = 0 THEN {<<>>}
    ELSE LET shorter == SeqsUpTo(S, n - 1)
         IN  shorter \cup {Append(q, x) : q \in shorter, x \in S}

\* The responses of at most n entries.
Responses == [n \in 0 .. MaxEntries |-> SeqsUpTo(EntryPool, n)]

\* ------------------------------------------------ the per-day aggregation
\* daySubjects = {} is a plain object: its own properties are kept here in
\* creation order, each with its Set as the sequence of its distinct members
\* in insertion order.
InheritedNames == {"constructor", "toString", "valueOf", "hasOwnProperty", "__proto__"}

\* Property names that are canonical array indices, with their values.
ArrayIndexNames == {"2", "10"}
ArrayIndex(key) == IF key = "2" THEN 2 ELSE 10

HasOwn(ds, key) == \E i \in 1 .. Len(ds) : ds[i].key = key

\* SetAdd as the push of an array: nothing is deduplicated.
SetAddNoDedup(lines, text) == Append(lines, text)

\* set.add(text)
SetAdd(lines, text) == IF text \in Range(lines) THEN lines ELSE Append(lines, text)

\* if (!daySubjects[subject]) daySubjects[subject] = new Set();
\* daySubjects[subject].add(text), for a subject with daySubjects[subject]
\* undefined or a Set.
AddLine(ds, subject, text) ==
    IF HasOwn(ds, subject)
    THEN [i \in 1 .. Len(ds) |->
            IF ds[i].key = subject
            THEN [ds[i] EXCEPT !.lines = SetAdd(ds[i].lines, text)]
            ELSE ds[i]]
    ELSE Append(ds, [key |-> subject, lines |-> <<text>>])

\* The loop over calendarEntries of one response.  acc.ds is daySubjects,
\* acc.added the add calls made, acc.threw whether the loop was left by a
\* TypeError: daySubjects[subject] of a name that a plain object inherits is
\* truthy and no Set, so .add is not a function.
RECURSIVE ProcessEntries(_, _)
ProcessEntries(acc, entries) ==
    IF entries = <<>> THEN acc
    ELSE LET entry == Head(entries)
             subject == SubjectOf(entry)
             text == LineOf(entry)
         IN  IF entry.subject = "" THEN ProcessEntries(acc, Tail(entries))
             ELSE IF ~HasOwn(acc.ds, subject) /\ subject \in InheritedNames
             THEN [acc EXCEPT !.threw = TRUE]
             ELSE ProcessEntries(
                    [acc EXCEPT !.ds = AddLine(acc.ds, subject, text),
                                !.added = Append(acc.added,
                                                 [subject |-> subject, text |-> text])],
                    Tail(entries))

RECURSIVE SortByIndex(_)
SortByIndex(S) ==
    IF S = {} THEN <<>>
    ELSE LET least == CHOOSE p \in S : \A q \in S : ArrayIndex(p.key) <= ArrayIndex(q.key)
         IN  <<least>> \o SortByIndex(S \ {least})

\* Object.entries(daySubjects): array-index names first, in ascending numeric
\* order, then the other names in creation order.
ObjectEntries(ds) ==
    LET IsIndex(p) == p.key \in ArrayIndexNames
        NotIndex(p) == p.key \notin ArrayIndexNames
    IN  SortByIndex(Range(SelectSeq(ds, IsIndex))) \o SelectSeq(ds, NotIndex)

\* ------------------------------------------------------------- paragraphs
Para(kind, text, color) == [kind |-> kind, text |-> text, color |-> color]

TitlePara == Para("title", <<"Berichtsheft">>, "")

WeekPara(week, year) == Para("week", <<"KW", ToString(week), "/", ToString(year)>>, "")

\* toLocaleDateString("de-DE", {weekday, year, month, day}) of the local day.
DayHeading(zone, date) ==
    Para("dayHeading",
         <<ToString(GetDay(zone, date)), ToString(GetDate(zone, date)),
           ToString(GetMonth(zone, date) + 1), ToString(GetFullYear(zone, date)), ":">>,
         "")

BulletColor(content) ==
    IF Includes(content, <<"Kein Lehrstoff">>) THEN "FF0000" ELSE "000000"

BulletParas(lines) == [i \in 1 .. Len(lines) |-> Para("bullet", lines[i], BulletColor(lines[i]))]

RECURSIVE SubjectBlocks(_)
SubjectBlocks(entries) ==
    IF entries = <<>> THEN <<>>
    ELSE <<Para("subject", <<Head(entries).key>>, "156082")>>
            \o BulletParas(Head(entries).lines)
            \o SubjectBlocks(Tail(entries))

BlankPara == Para("", <<>>, "")

\* ------------------------------------------------------------ the network
\* What a fetch can give: the promise rejects ("transport"), or a response
\* arrives with its ok flag.
NoCookies == [present |-> FALSE, cookies |-> <<>>]

\* The set-cookie header of the login response: absent, empty, or cookies
\* given by name and the text between the quotes of their value.
SetCookieHeaders ==
    {NoCookies,
     [present |-> TRUE, cookies |-> <<>>],
     [present |-> TRUE, cookies |-> <<[name |-> "JSESSIONID", value |-> "s1"]>>],
     [present |-> TRUE, cookies |-> <<[name |-> "JSESSIONID", value |-> "s1"],
                                      [name |-> "Tenant-Id", value |-> ""]>>],
     [present |-> TRUE, cookies |-> <<[name |-> "JSESSIONID", value |-> "s1"],
                                      [name |-> "Tenant-Id", value |-> "4711"]>>]}

LoginResponses ==
    {[kind |-> "transport", ok |-> FALSE, setCookie |-> NoCookies]}
        \cup {[kind |-> "http", ok |-> FALSE, setCookie |-> h] : h \in {NoCookies}}
        \cup {[kind |-> "http", ok |-> TRUE, setCookie |-> h] : h \in SetCookieHeaders}

NoLogin == [kind |-> "none", ok |-> FALSE, setCookie |-> NoCookies]

\* The body of the token response: text as a sequence of tokens, " " a blank.
TokenResponses ==
    {[kind |-> "transport", ok |-> FALSE, text |-> <<>>],
     [kind |-> "http", ok |-> FALSE, text |-> <<>>],
     [kind |-> "http", ok |-> TRUE, text |-> <<>>],
     [kind |-> "http", ok |-> TRUE, text |-> <<" ", " ">>],
     [kind |-> "http", ok |-> TRUE, text |-> <<"tok">>]}

NoToken == [kind |-> "none", ok |-> FALSE, text |-> <<>>]

\* loginAndGetCookie: "" when it returns the cookie, else the error thrown.
LoginError(resp) ==
    IF resp.kind = "transport" THEN "fetch failed"
    ELSE IF ~resp.ok THEN "Failed to login"
    ELSE IF ~resp.setCookie.present \/ resp.setCookie.cookies = <<>>
    THEN "No Set-Cookie header"
    ELSE ""

\* cookie.match(/Tenant-Id="([^"]+)"/): the captured identifiers.
TenantIdMatch(cookies) ==
    {c.value : c \in {k \in Range(cookies) : k.name = "Tenant-Id" /\ k.value # ""}}

TenantError(resp) ==
    IF TenantIdMatch(resp.setCookie.cookies) = {} THEN "Tenant-Id not found" ELSE ""

\* text.trim() === ""
IsBlank(text) == \A i \in 1 .. Len(text) : text[i] = " "

\* TokenError without the check for an empty token.
TokenErrorNoEmptyCheck(resp) ==
    IF resp.kind = "transport" THEN "fetch failed"
    ELSE IF ~resp.ok THEN "Failed to fetch API token"
    ELSE ""

TokenError(resp) ==
    IF resp.kind = "transport" THEN "fetch failed"
    ELSE IF ~resp.ok THEN "Failed to fetch API token"
    ELSE IF resp.text = <<>> \/ IsBlank(resp.text) THEN "API token is empty or invalid"
    ELSE ""

\* Ways one slot lookup fails before its entries are read.
SlotFailures == {"transport", "not ok", "unreadable body"}

\* What the catch around one lesson reports: the lookup failed, or the loop
\* over its entries threw.
LookupFailed == "Error fetching teaching content for lesson: lookup failed"
EntryLoopThrew == "Error fetching teaching content for lesson: add is not a function"

FirstHour == 7
LastHour == 18
SlotsPerDay == LastHour - FirstHour + 1

Call(name, start, end) == [call |-> name, start |-> start, end |-> end, done |-> FALSE]

\* The lesson object built for one hour of the current day.
Lesson(zone, date, h) ==
    [startDateTime |-> formatLocalDateTime(zone, SetHours(zone, date, h)),
     endDateTime |-> formatLocalDateTime(zone, SetHours(zone, date, h + 1))]

\* -------------------------------------------------------------------- state
VARIABLES
    pc,            \* where the run stands
    tz,            \* time zone of the process
    startInput,    \* the text entered at the first prompt
    endInput,      \* the text entered at the second prompt
    startDate,     \* new Date(startDateInput)
    endDate,       \* new Date(endDateInput)
    loginResp,     \* the login response, once received
    tokenResp,     \* the token response, once received
    weekNumber,    \* getCalendarWeek(startDate)
    currentDate,   \* the day of the loop
    dayCount,      \* days completed
    hour,          \* the hour of the lesson being fetched
    daySubjects,   \* the aggregation of the current day
    paragraphs,    \* the document's paragraphs so far
    docBuilt,      \* the Document was built and packed
    fileWritten,   \* fs.writeFileSync returned
    errors,        \* the messages console.error has reported
    netLog,        \* every fetch begun, in order, with whether it has settled
    dayReturned,   \* the entries the lookups of the current day have returned
    dayAdded,      \* the add calls made for the current day
    entriesSeen    \* entries returned so far in the run

vars ==
    <<pc, tz, startInput, endInput, startDate, endDate, loginResp, tokenResp,
      weekNumber, currentDate, dayCount, hour, daySubjects, paragraphs, docBuilt,
      fileWritten, errors, netLog, dayReturned, dayAdded, entriesSeen>>

NoInput == [form |-> "none", y |-> 0, m |-> 0, d |-> 0]

InitRest ==
    /\ startInput = NoInput
    /\ endInput = NoInput
    /\ startDate = NaN
    /\ endDate = NaN
    /\ loginResp = NoLogin
    /\ tokenResp = NoToken
    /\ weekNumber = 0
    /\ currentDate = NaN
    /\ dayCount = 0
    /\ hour = FirstHour
    /\ daySubjects = <<>>
    /\ paragraphs = <<>>
    /\ docBuilt = FALSE
    /\ fileWritten = FALSE
    /\ errors = {}
    /\ netLog = <<>>
    /\ dayReturned = {}
    /\ dayAdded = <<>>
    /\ entriesSeen = 0

\* The zones a run is followed in.
RunZones == {"UTC", "Europe/Berlin"}

Init ==
    /\ pc = "prompt"
    /\ tz \in RunZones
    /\ InitRest

Settle(log) == [log EXCEPT ![Len(log)].done = TRUE]

\* main: the two prompts are answered; promptUserForTimeframe resolves or
\* rejects, and a rejection is reported by main's catch.
Prompt ==
    /\ pc = "prompt"
    /\ \E s \in InputTexts, e \in InputTexts :
        /\ startInput' = s
        /\ endInput' = e
        /\ startDate' = ParseDate(s)
        /\ endDate' = ParseDate(e)
        /\ LET rejection == ValidateTimeframe(ParseDate(s), ParseDate(e))
           IN  IF rejection # ""
               THEN pc' = "done" /\ errors' = errors \cup {rejection}
               ELSE pc' = "login" /\ errors' = errors
    /\ UNCHANGED <<tz, loginResp, tokenResp, weekNumber, currentDate, dayCount, hour,
                   daySubjects, paragraphs, docBuilt, fileWritten, netLog, dayReturned,
                   dayAdded, entriesSeen>>

\* loginAndGetCookie begins its fetch.
LoginSend ==
    /\ pc = "login"
    /\ netLog' = Append(netLog, Call("login", NoTime, NoTime))
    /\ pc' = "loginWait"
    /\ UNCHANGED <<tz, startInput, endInput, startDate, endDate, loginResp, tokenResp,
                   weekNumber, currentDate, dayCount, hour, daySubjects, paragraphs,
                   docBuilt, fileWritten, errors, dayReturned, dayAdded, entriesSeen>>

\* The login fetch settles; the cookie and the tenant id are extracted.  Any
\* throw is caught by the catch of fetchTeachingContent.
LoginRecv ==
    /\ pc = "loginWait"
    /\ \E resp \in LoginResponses :
        /\ loginResp' = resp
        /\ LET thrown == IF LoginError(resp) # "" THEN LoginError(resp) ELSE TenantError(resp)
           IN  IF thrown # ""
               THEN pc' = "done" /\ errors' = errors \cup {thrown}
               ELSE pc' = "token" /\ errors' = errors
    /\ netLog' = Settle(netLog)
    /\ UNCHANGED <<tz, startInput, endInput, startDate, endDate, tokenResp, weekNumber,
                   currentDate, dayCount, hour, daySubjects, paragraphs, docBuilt,
                   fileWritten, dayReturned, dayAdded, entriesSeen>>

TokenSend ==
    /\ pc = "token"
    /\ netLog' = Append(netLog, Call("token", NoTime, NoTime))
    /\ pc' = "tokenWait"
    /\ UNCHANGED <<tz, startInput, endInput, startDate, endDate, loginResp, tokenResp,
                   weekNumber, currentDate, dayCount, hour, daySubjects, paragraphs,
                   docBuilt, fileWritten, errors, dayReturned, dayAdded, entriesSeen>>

\* The token fetch settles.  With a token the title and the week label are
\* pushed and the day loop is set up.
TokenRecv ==
    /\ pc = "tokenWait"
    /\ \E resp \in TokenResponses :
        /\ tokenResp' = resp
        /\ IF TokenError(resp) # ""
           THEN /\ pc' = "done"
                /\ errors' = errors \cup {TokenError(resp)}
                /\ UNCHANGED <<weekNumber, paragraphs, currentDate, dayCount>>
           ELSE /\ pc' = "loop"
                /\ errors' = errors
                /\ weekNumber' = getCalendarWeek(tz, startDate)
                /\ paragraphs' =
                     <<TitlePara,
                       WeekPara(getCalendarWeek(tz, startDate), GetFullYear(tz, startDate))>>
                /\ currentDate' = startDate
                /\ dayCount' = 0
    /\ netLog' = Settle(netLog)
    /\ UNCHANGED <<tz, startInput, endInput, startDate, endDate, loginResp, hour,
                   daySubjects, docBuilt, fileWritten, dayReturned, dayAdded, entriesSeen>>

\* while (currentDate <= endDate)
LoopTest(date, end) == date <= end

\* FreshDaySubjects with the object declared outside the day loop.
StaleDaySubjects == daySubjects

\* const daySubjects = {} at the start of each day.
FreshDaySubjects == <<>>

\* The loop test; when it holds, the day's heading is pushed and the day's
\* aggregation starts empty.
DayStart ==
    /\ pc = "loop"
    /\ IF LoopTest(currentDate, endDate)
       THEN /\ pc' = "slot"
            /\ hour' = FirstHour
            /\ paragraphs' = Append(paragraphs, DayHeading(tz, currentDate))
            /\ daySubjects' = FreshDaySubjects
            /\ dayReturned' = {}
            /\ dayAdded' = <<>>
       ELSE /\ pc' = "generate"
            /\ UNCHANGED <<hour, paragraphs, daySubjects, dayReturned, dayAdded>>
    /\ UNCHANGED <<tz, startInput, endInput, startDate, endDate, loginResp, tokenResp,
                   weekNumber, currentDate, dayCount, docBuilt, fileWritten, errors,
                   netLog, entriesSeen>>

\* The fetch of one lesson begins.
SlotSend ==
    /\ pc = "slot"
    /\ LET lesson == Lesson(tz, currentDate, hour)
       IN  netLog' = Append(netLog, Call("slot", lesson.startDateTime, lesson.endDateTime))
    /\ pc' = "slotWait"
    /\ UNCHANGED <<tz, startInput, endInput, startDate, endDate, loginResp, tokenResp,
                   weekNumber, currentDate, dayCount, hour, daySubjects, paragraphs,
                   docBuilt, fileWritten, errors, dayReturned, dayAdded, entriesSeen>>

\* Where the lesson loop goes after one lesson.
AfterLesson ==
    IF hour < LastHour
    THEN pc' = "slot" /\ hour' = hour + 1
    ELSE pc' = "dayEnd" /\ hour' = hour

\* AfterFailure as a catch around the whole lesson loop: the day's remaining
\* lessons are skipped.
AfterFailureBreak == pc' = "dayEnd" /\ hour' = hour

\* The catch around one lesson only reports: the lesson loop goes on.
AfterFailure == AfterLesson

\* The fetch of one lesson fails: the inner catch reports it.
SlotFail ==
    /\ pc = "slotWait"
    /\ \E why \in SlotFailures : errors' = errors \cup {LookupFailed}
    /\ netLog' = Settle(netLog)
    /\ AfterFailure
    /\ UNCHANGED <<tz, startInput, endInput, startDate, endDate, loginResp, tokenResp,
                   weekNumber, currentDate, dayCount, daySubjects, paragraphs, docBuilt,
                   fileWritten, dayReturned, dayAdded, entriesSeen>>

\* The fetch of one lesson returns calendar entries, which are grouped.
SlotRecv ==
    /\ pc = "slotWait"
    /\ \E entries \in Responses[MaxEntries - entriesSeen] :
        LET result == ProcessEntries([ds |-> daySubjects, added |-> <<>>, threw |-> FALSE],
                                     entries)
        IN  /\ daySubjects' = result.ds
            /\ dayAdded' = dayAdded \o result.added
            /\ dayReturned' = dayReturned \cup Range(entries)
            /\ entriesSeen' = entriesSeen + Len(entries)
            /\ errors' = IF result.threw
                         THEN errors \cup {EntryLoopThrew}
                         ELSE errors
    /\ netLog' = Settle(netLog)
    /\ AfterLesson
    /\ UNCHANGED <<tz, startInput, endInput, startDate, endDate, loginResp, tokenResp,
                   weekNumber, currentDate, dayCount, paragraphs, docBuilt, fileWritten>>

\* The paragraphs one day's aggregation is flattened into.
DayBlocks(ds) == SubjectBlocks(ObjectEntries(ds)) \o <<BlankPara>>

\* currentDate.setDate(currentDate.getDate() + 1)
NextDay(zone, date) == SetDate(zone, date, GetDate(zone, date) + 1)

\* After the last lesson: subjects and bullets are pushed, then the blank
\* line, and the loop moves to the next day.
DayEnd ==
    /\ pc = "dayEnd"
    /\ paragraphs' = paragraphs \o DayBlocks(daySubjects)
    /\ currentDate' = NextDay(tz, currentDate)
    /\ dayCount' = dayCount + 1
    /\ pc' = "loop"
    /\ UNCHANGED <<tz, startInput, endInput, startDate, endDate, loginResp, tokenResp,
                   weekNumber, hour, daySubjects, docBuilt, fileWritten, errors, netLog,
                   dayReturned, dayAdded, entriesSeen>>

\* After the loop: the emptiness check, the Document, and the output path.
\* The path falls back on __dirname when DOCX_PATH is not set; the script is
\* an ES module, where __dirname is not defined unless the build supplies it.
Generate ==
    /\ pc = "generate"
    /\ IF Len(paragraphs) = 0
       THEN /\ pc' = "done"
            /\ errors' = errors \cup {"No valid teaching content"}
            /\ docBuilt' = docBuilt
       ELSE /\ docBuilt' = TRUE
            /\ \E outputDirKnown \in BOOLEAN :
                IF outputDirKnown
                THEN pc' = "write" /\ errors' = errors
                ELSE pc' = "done" /\ errors' = errors \cup {"__dirname is not defined"}
    /\ UNCHANGED <<tz, startInput, endInput, startDate, endDate, loginResp, tokenResp,
                   weekNumber, currentDate, dayCount, hour, daySubjects, paragraphs,
                   fileWritten, netLog, dayReturned, dayAdded, entriesSeen>>

\* fs.writeFileSync returns or throws.
Write ==
    /\ pc = "write"
    /\ \E written \in BOOLEAN :
        /\ fileWritten' = written
        /\ errors' = IF written THEN errors ELSE errors \cup {"write failed"}
    /\ pc' = "done"
    /\ UNCHANGED <<tz, startInput, endInput, startDate, endDate, loginResp, tokenResp,
                   weekNumber, currentDate, dayCount, hour, daySubjects, paragraphs,
                   docBuilt, netLog, dayReturned, dayAdded, entriesSeen>>

Next ==
    \/ Prompt
    \/ LoginSend
    \/ LoginRecv
    \/ TokenSend
    \/ TokenRecv
    \/ DayStart
    \/ SlotSend
    \/ SlotFail
    \/ SlotRecv
    \/ DayEnd
    \/ Generate
    \/ Write

Spec == Init /\ [][Next]_vars

\* ------------------------------------------------- getCalendarWeek alone
\* The week label for every start date of four years, in every zone.
WeekDays == MakeDay(2024, 1, 1) .. MakeDay(2027, 12, 31)

InitWeek ==
    /\ pc = "week"
    /\ tz \in TimeZones
    /\ \E n \in WeekDays : startInput = YmdOfDay(n) /\ startDate = ParseDate(YmdOfDay(n))
    /\ endInput = startInput
    /\ endDate = startDate
    /\ loginResp = NoLogin
    /\ tokenResp = NoToken
    /\ weekNumber = 0
    /\ currentDate = NaN
    /\ dayCount = 0
    /\ hour = FirstHour
    /\ daySubjects = <<>>
    /\ paragraphs = <<>>
    /\ docBuilt = FALSE
    /\ fileWritten = FALSE
    /\ errors = {}
    /\ netLog = <<>>
    /\ dayReturned = {}
    /\ dayAdded = <<>>
    /\ entriesSeen = 0

CalendarWeek ==
    /\ pc = "week"
    /\ weekNumber' = getCalendarWeek(tz, startDate)
    /\ pc' = "weekDone"
    /\ UNCHANGED <<tz, startInput, endInput, startDate, endDate, loginResp, tokenResp,
                   currentDate, dayCount, hour, daySubjects, paragraphs, docBuilt,
                   fileWritten, errors, netLog, dayReturned, dayAdded, entriesSeen>>

NextWeek == CalendarWeek

SpecWeek == InitWeek /\ [][NextWeek]_vars

\* ------------------------------------------------------ reading the state
InputErrors == {"Invalid date format", "Start date must be earlier"}

IsSlotCall(c) == c.call = "slot"

SlotCalls == SelectSeq(netLog, IsSlotCall)

\* The run is past authentication: the title has been pushed.
PastAuth == paragraphs # <<>>

\* The day loop has been left.
LoopLeft == PastAuth /\ pc \in {"generate", "write", "done"}

\* A day has been flattened and the next has not begun.
DayFlattened == pc = "loop" /\ dayCount > 0

Bullets(paras) == {i \in 1 .. Len(paras) : paras[i].kind = "bullet"}

\* The paragraphs of the day flattened last: from its heading on.
LastDayBlock ==
    LET heads == {i \in 1 .. Len(paragraphs) : paragraphs[i].kind = "dayHeading"}
        from == CHOOSE i \in heads : \A j \in heads : j <= i
    IN  SubSeq(paragraphs, from, Len(paragraphs))

\* The subject heading a bullet of a block stands under.
SubjectAbove(block, i) ==
    LET subs == {j \in 1 .. i : block[j].kind = "subject"}
    IN  block[CHOOSE j \in subs : \A k \in subs : k <= j].text[1]

\* The bullets of a block as (subject, text) pairs, in order.
BulletPairs(block) ==
    LET IsBullet(q) == q.kind = "bullet"
        tagged == [i \in 1 .. Len(block) |->
                     IF block[i].kind = "bullet"
                     THEN [kind |-> "bullet", subject |-> SubjectAbove(block, i),
                           text |-> block[i].text, color |-> block[i].color]
                     ELSE [kind |-> "", subject |-> "", text |-> <<>>, color |-> ""]]
    IN  SelectSeq(tagged, IsBullet)

\* ------------------------------------------------------------------ claims

C2_NoContentNoFile ==
    (pc = "done" /\ PastAuth /\ Bullets(paragraphs) = {})
        => (errors # {} /\ ~fileWritten)

\* The login response has no usable cookie: none, or an empty header.
NoCookie(resp) == ~resp.setCookie.present \/ resp.setCookie.cookies = <<>>

\* The cookie names no tenant: no Tenant-Id cookie with a value.
NoTenant(resp) ==
    \A i \in 1 .. Len(resp.setCookie.cookies) :
        resp.setCookie.cookies[i].name # "Tenant-Id" \/ resp.setCookie.cookies[i].value = ""

AuthFailed ==
    \/ loginResp.kind = "transport"
    \/ loginResp.kind = "http" /\ ~loginResp.ok
    \/ loginResp.kind = "http" /\ (NoCookie(loginResp) \/ NoTenant(loginResp))
    \/ tokenResp.kind = "transport"
    \/ tokenResp.kind = "http" /\ ~tokenResp.ok
    \/ tokenResp.kind = "http" /\ \A i \in 1 .. Len(tokenResp.text) : tokenResp.text[i] = " "

\* C7: when login fails, the login response has no cookie, the cookie names
\* no tenant, the token request fails or the token is empty, the run is over
\* with an error reported, no slot lookup was begun, no document was built
\* and no file written.
C7_AuthFailureAborts ==
    AuthFailed
        => /\ pc = "done"
           /\ errors # {}
           /\ SlotCalls = <<>>
           /\ paragraphs = <<>>
           /\ ~docBuilt
           /\ ~fileWritten

\* A run ended by a token that is only blanks, after a good login.
C7_Witness ==
    /\ pc = "done"
    /\ loginResp.kind = "http" /\ loginResp.ok /\ ~NoTenant(loginResp)
    /\ tokenResp.kind = "http" /\ tokenResp.ok /\ tokenResp.text = <<" ", " ">>
    /\ errors = {"API token is empty or invalid"}

\* The ISO 8601 week number of a day: weeks run Monday to Sunday, a week
\* belongs to the year of its Thursday, and the weeks of a year are counted
\* from the one holding its first Thursday (the week of January 4).
ISOWeek(n) ==
    LET thursday == n - ((WeekDayOfDay(n) + 6) % 7) + 3
    IN  (thursday - MakeDay(YearOfDay(thursday), 1, 1)) \div 7 + 1

EnteredDay(text) == MakeDay(text.y, text.m, text.d)

\* C8: the week number computed for the start date is the ISO 8601 week
\* number of the entered date.
C8_WeekIsISO ==
    pc = "weekDone" => weekNumber = ISOWeek(EnteredDay(startInput))

\* HH or MM of a clock time, two digits.
TwoDigits(n) == IF n < 10 THEN <<"0", ToString(n)>> ELSE <<ToString(n)>>

\* Entfallen (HH:MM - HH:MM) of an entry's own start and end time.
EntfallenLine(e) ==
    <<"Entfallen (">> \o TwoDigits(e.startDateTime.h) \o <<":">>
        \o TwoDigits(e.startDateTime.m) \o <<" - ">> \o TwoDigits(e.endDateTime.h)
        \o <<":">> \o TwoDigits(e.endDateTime.m) \o <<")">>

\* C3, for the entries the script groups (those with a subject name): once a
\* day is flattened, every such entry its lookups returned with status
\* CANCELLED has, in that day's block, a bullet line Entfallen (HH:MM - HH:MM)
\* of its own start and end time, whatever its other fields and whatever the
\* other entries of the day.
C3_CancelledAlwaysRendered ==
    DayFlattened
        => \A e \in dayReturned :
              (e.status = "CANCELLED" /\ e.subject # "")
                  => \E i \in Bullets(LastDayBlock) : LastDayBlock[i].text = EntfallenLine(e)

\* The name of the block an entry with a subject is grouped under.
BlockName(e) == IF e.subject = LF8Long THEN LF8Short ELSE e.subject

\* C4: in the block of a flattened day a bullet line is red exactly when it
\* is the sentinel standing for an entry of that subject and day that has no
\* content text; every other bullet line is black.
C4_RedIffMissingContent ==
    DayFlattened
        => \A i \in 1 .. Len(BulletPairs(LastDayBlock)) :
              LET b == BulletPairs(LastDayBlock)[i]
                  sentinel ==
                      /\ b.text = MissingContent
                      /\ \E e \in dayReturned :
                            /\ e.subject # "" /\ BlockName(e) = b.subject
                            /\ e.status # "CANCELLED"
                            /\ e.teachingContent = <<>>
              IN  /\ b.color = "FF0000" <=> sentinel
                  /\ b.color = "000000" <=> ~sentinel

\* C5: the lines held for a subject are pairwise distinct at all times, and
\* once a day is flattened every (subject, text) that was added during the day
\* is the pair of exactly one bullet line of the day's block, and the block
\* has no other bullet line.
C5_OneLinePerText ==
    /\ \A k \in 1 .. Len(daySubjects) :
          \A i, j \in 1 .. Len(daySubjects[k].lines) :
              daySubjects[k].lines[i] = daySubjects[k].lines[j] => i = j
    /\ DayFlattened
          => LET pairs == BulletPairs(LastDayBlock)
                 Same(q, a) == q.subject = a.subject /\ q.text = a.text
             IN  /\ \A n \in 1 .. Len(dayAdded) :
                       Cardinality({i \in 1 .. Len(pairs) : Same(pairs[i], dayAdded[n])}) = 1
                 /\ \A i \in 1 .. Len(pairs) :
                       \E n \in 1 .. Len(dayAdded) : Same(pairs[i], dayAdded[n])

\* A flattened day for which the same text was added twice to one subject.
C5_Witness ==
    /\ DayFlattened
    /\ \E m, n \in 1 .. Len(dayAdded) : m # n /\ dayAdded[m] = dayAdded[n]
    /\ Bullets(LastDayBlock) # {}

\* The kinds of paragraph that may follow one another.
MayFollow ==
    {<<"title", "week">>, <<"week", "dayHeading">>, <<"dayHeading", "subject">>,
     <<"dayHeading", "">>, <<"subject", "bullet">>, <<"bullet", "bullet">>,
     <<"bullet", "subject">>, <<"bullet", "">>, <<"", "dayHeading">>}

\* C10: whenever no day is under way the paragraphs are the title, the week
\* label and, per day processed, one heading, then per subject one
\* sub-heading with at least one bullet line, then one blank line; a day
\* whose lookups returned no entry is its heading and the blank line; and
\* every bullet line of the day flattened last is the line of an entry that
\* the lookups of that very day returned for that subject.
C10_DayBlocks ==
    (PastAuth /\ pc \in {"loop", "generate", "write", "done"})
        => /\ paragraphs[1].kind = "title"
           /\ \A i \in 1 .. Len(paragraphs) - 1 :
                 <<paragraphs[i].kind, paragraphs[i + 1].kind>> \in MayFollow
           /\ paragraphs[Len(paragraphs)].kind = (IF dayCount = 0 THEN "week" ELSE "")
           /\ Cardinality({i \in 1 .. Len(paragraphs) : paragraphs[i].kind = "dayHeading"})
                 = dayCount
           /\ DayFlattened
                 => /\ dayReturned = {} => Len(LastDayBlock) = 2
                    /\ \A i \in 1 .. Len(BulletPairs(LastDayBlock)) :
                          LET b == BulletPairs(LastDayBlock)[i]
                          IN  \E e \in dayReturned :
                                 /\ e.subject # "" /\ BlockName(e) = b.subject
                                 /\ b.text = (IF e.status = "CANCELLED" THEN EntfallenLine(e)
                                              ELSE IF e.teachingContent = <<>>
                                              THEN MissingContent
                                              ELSE e.teachingContent)

\* The second day returned nothing after a first day that gave bullet lines.
C10_Witness ==
    /\ DayFlattened
    /\ dayCount = 2
    /\ dayReturned = {}
    /\ Len(LastDayBlock) = 2
    /\ Bullets(paragraphs) # {}

\* The lookups so far, counted from the position of the loop.
LookupsDue ==
    SlotsPerDay * dayCount
        + (IF pc = "slot" THEN hour - FirstHour
           ELSE IF pc \in {"slotWait", "dayEnd"} THEN hour - FirstHour + 1
           ELSE 0)

\* C6: once a slot lookup has failed, every line added during the day is
\* still held (and is in the day's block once the day is flattened), no
\* lookup has been left out (each day has its twelve lookups, hour after
\* hour), the day loop is left only with the current day past the end date,
\* and a run that is over has built the document, the step that writes it.
C6_FailedLookupOnlySkipped ==
    LookupFailed \in errors
        => /\ pc \in {"slot", "slotWait", "dayEnd"}
                 => \A n \in 1 .. Len(dayAdded) :
                       \E k \in 1 .. Len(daySubjects) :
                          /\ daySubjects[k].key = dayAdded[n].subject
                          /\ dayAdded[n].text \in Range(daySubjects[k].lines)
           /\ DayFlattened
                 => \A n \in 1 .. Len(dayAdded) :
                       \E i \in 1 .. Len(BulletPairs(LastDayBlock)) :
                          /\ BulletPairs(LastDayBlock)[i].subject = dayAdded[n].subject
                          /\ BulletPairs(LastDayBlock)[i].text = dayAdded[n].text
           /\ Len(SlotCalls) = LookupsDue
           /\ \A k \in 1 .. Len(SlotCalls) :
                 /\ SlotCalls[k].start.h = FirstHour + ((k - 1) % SlotsPerDay)
                 /\ SlotCalls[k].end.h = SlotCalls[k].start.h + 1
           /\ LoopLeft => currentDate > endDate
           /\ pc = "done" => docBuilt

\* A run of two days in which a lookup failed, no entry loop threw, bullet
\* lines were gathered and the file was written.
C6_Witness ==
    /\ pc = "done"
    /\ errors = {LookupFailed}
    /\ dayCount = 2
    /\ Len(SlotCalls) = 2 * SlotsPerDay
    /\ Bullets(paragraphs) # {}
    /\ fileWritten

\* The lookups of the calendar days from the entered start date to the
\* entered end date: per day the hours 7 to 18, each for one hour.
ExpectedLookups ==
    LET first == EnteredDay(startInput)
        last == EnteredDay(endInput)
    IN  [k \in 1 .. SlotsPerDay * (last - first + 1) |->
            LET n == first + (k - 1) \div SlotsPerDay
                h == FirstHour + ((k - 1) % SlotsPerDay)
                ymd == [y |-> YearOfDay(n), m |-> MonthOfDay(n), d |-> DateOfDay(n)]
            IN  [call |-> "slot",
                 start |-> [y |-> ymd.y, m |-> ymd.m, d |-> ymd.d, h |-> h],
                 end |-> [y |-> ymd.y, m |-> ymd.m, d |-> ymd.d, h |-> h + 1],
                 done |-> TRUE]]

\* C9: no fetch is begun before the one before it has settled, and when the
\* day loop is left the lookups made are, in order, the twelve of every
\* calendar day from the entered start date to the entered end date.
C9_EveryDayOnceInOrder ==
    /\ \A i \in 1 .. Len(netLog) - 1 : netLog[i].done
    /\ LoopLeft => SlotCalls = ExpectedLookups

\* A sequence without its repetitions: each member where it occurs first.
RECURSIVE FirstSeen(_)
FirstSeen(q) ==
    IF q = <<>> THEN <<>>
    ELSE LET front == FirstSeen(SubSeq(q, 1, Len(q) - 1))
             last == q[Len(q)]
         IN  IF last \in Range(front) THEN front ELSE Append(front, last)

\* The subjects of a sequence of (subject, text) pairs, in order.
SubjectsOf(pairs) == [i \in 1 .. Len(pairs) |-> pairs[i].subject]

\* The texts a sequence of (subject, text) pairs has for one subject, in order.
TextsOf(pairs, subject) ==
    LET Mine(q) == q.subject = subject
        mine == SelectSeq(pairs, Mine)
    IN  [i \in 1 .. Len(mine) |-> mine[i].text]

\* The part of C11 about the lines: within each subject block of a flattened
\* day the bullet lines stand in the order in which their texts were first
\* added to the subject that day.
LinesInInsertionOrder ==
    DayFlattened
        => \A subject \in Range(SubjectsOf(dayAdded)) :
              TextsOf(BulletPairs(LastDayBlock), subject)
                  = FirstSeen(TextsOf(dayAdded, subject))

\* C11: in the block of a flattened day the subject blocks stand in the order
\* in which their subjects were first seen that day (slots in ascending hour
\* order, entries in returned order), whatever the subject names are, and
\* within each subject block the bullet lines stand in the order in which
\* their texts were first added.
C11_FirstSeenOrder ==
    /\ DayFlattened
          => FirstSeen(SubjectsOf(BulletPairs(LastDayBlock)))
                 = FirstSeen(SubjectsOf(dayAdded))
    /\ LinesInInsertionOrder

====
